---- MODULE Spec2Model ----
(***************************************************************************)
(* Model of customdevice.c: a mock character device whose open() takes a   *)
(* mutex (interruptibly), whose release() drops it when it is locked and   *)
(* whose ioctl() only logs.  custom_init() sets the device up in four      *)
(* fallible steps and cleanup(err) undoes them through a fall-through      *)
(* switch; custom_exit() is cleanup(0).                                    *)
(*                                                                         *)
(* Kernel primitives are modelled by their effect on the fields the driver *)
(* reads: a mutex is its owner word (0 = unlocked) plus a validity mark    *)
(* written by mutex_init/mutex_destroy; a setup call either succeeds or    *)
(* returns the failure value the driver tests for.                         *)
(***************************************************************************)
EXTENDS Integers, Sequences, FiniteSets, TLC

\* Number of concurrent callers (threads of control entering the file operations).
NumThreads == 3

Threads == 1..NumThreads

\* Major numbers the kernel may hand out dynamically, and the identities a
\* caller's inode may present.
AllocMajors == {240}
InodeMajors == {240, 241}
InodeMinors == {0, 1}
InodeCdevs == {"custom_dev.cdev", "other_cdev"}

MKDEV(ma, mi) == ma * (2^20) + mi
MAJOR(d)      == d \div (2^20)

VARIABLES
    custom_dev,  \* the static custom_dev_t: lock, cdev, class_ptr, device_ptr, dev, major
    mpc,         \* position of the module thread in custom_init / cleanup / custom_exit
    err,         \* custom_init's err, the argument of cleanup
    pc,          \* pc[t]: where caller t is inside a file operation
    sess,        \* sess[t]: t's open() returned 0 and t has not completed a matching release()
    log,         \* sequence of the setup and release calls made on the platform's resources
    last         \* the step taken last and what it returned to its caller

vars == <<custom_dev, mpc, err, pc, sess, log, last>>

----------------------------------------------------------------------------
(* struct mutex *)

mutex_is_locked(l) == l.owner # 0

\* mutex_unlock clears the owner word whoever the caller is; on an unlocked
\* mutex the word stays 0.
mutex_unlock(l) == [l EXCEPT !.owner = 0]

\* Variant: the lock attempt's outcome is ignored and the mutex is not taken.
mutex_acquire_noop(l, t) == l

mutex_acquire(l, t) == [l EXCEPT !.owner = t]

mutex_init(l) == [owner |-> 0, magic |-> "valid"]

mutex_destroy(l) == [l EXCEPT !.magic = "destroyed"]

\* Variant: the major number is not compared.
no_such_device_minor_only(mj, mn) == mn < 0

\* if (mj != custom_dev.major || mn < 0): mn is unsigned, so mn < 0 never holds.
no_such_device(mj, mn) == mj # custom_dev.major \/ mn < 0

\* if (inode->i_cdev != &(custom_dev.cdev))
wrong_cdev(i_cdev) == i_cdev # "custom_dev.cdev"

Event(op, t, returned, ret) == [op |-> op, t |-> t, returned |-> returned, ret |-> ret]

\* The platform dispatches file operations to the driver while its cdev is added.
Reachable == custom_dev.cdev = "added"

----------------------------------------------------------------------------
(* static custom_dev_t custom_dev = { NULL, NULL, 0, 0 } *)

Init ==
    /\ custom_dev = [lock       |-> [owner |-> 0, magic |-> "uninit"],
                     cdev       |-> "zero",
                     class_ptr  |-> "NULL",
                     device_ptr |-> "NULL",
                     dev        |-> 0,
                     major      |-> 0]
    /\ mpc  = "alloc_chrdev_region"
    /\ err  = 0
    /\ pc   = [t \in Threads |-> "idle"]
    /\ sess = [t \in Threads |-> FALSE]
    /\ log  = <<>>
    /\ last = Event("load", 0, FALSE, 0)

----------------------------------------------------------------------------
(* open *)

\* Entry of open(): the two identity tests, then mutex_lock_interruptible's
\* first attempt: take the lock when it is free, sleep otherwise.
open(t, mj, mn, i_cdev) ==
    /\ Reachable
    /\ pc[t] = "idle"
    /\ ~sess[t]
    /\ IF no_such_device(mj, mn)
       THEN /\ last' = Event("open_nodev", t, TRUE, -1)
            /\ UNCHANGED <<custom_dev, pc, sess>>
       ELSE IF wrong_cdev(i_cdev)
       THEN /\ last' = Event("open_badcdev", t, TRUE, -1)
            /\ UNCHANGED <<custom_dev, pc, sess>>
       ELSE IF ~mutex_is_locked(custom_dev.lock)
       THEN /\ custom_dev' = [custom_dev EXCEPT !.lock = mutex_acquire(@, t)]
            /\ sess' = [sess EXCEPT ![t] = TRUE]
            /\ last' = Event("open_ok", t, TRUE, 0)
            /\ UNCHANGED pc
       ELSE /\ pc' = [pc EXCEPT ![t] = "blocked"]
            /\ last' = Event("open_block", t, FALSE, 0)
            /\ UNCHANGED <<custom_dev, sess>>
    /\ UNCHANGED <<mpc, err, log>>

\* Variant: the sleeper proceeds as lock holder without the lock being free.
open_wakeup_barges(t) ==
    /\ pc[t] = "blocked"
    /\ custom_dev' = [custom_dev EXCEPT !.lock = mutex_acquire(@, t)]
    /\ pc' = [pc EXCEPT ![t] = "idle"]
    /\ sess' = [sess EXCEPT ![t] = TRUE]
    /\ last' = Event("open_ok", t, TRUE, 0)
    /\ UNCHANGED <<mpc, err, log>>

\* A sleeper in mutex_lock_interruptible gets the lock once it is free.
open_wakeup(t) ==
    /\ pc[t] = "blocked"
    /\ ~mutex_is_locked(custom_dev.lock)
    /\ custom_dev' = [custom_dev EXCEPT !.lock = mutex_acquire(@, t)]
    /\ pc' = [pc EXCEPT ![t] = "idle"]
    /\ sess' = [sess EXCEPT ![t] = TRUE]
    /\ last' = Event("open_ok", t, TRUE, 0)
    /\ UNCHANGED <<mpc, err, log>>

\* Variant: the error path of open() unlocks the mutex it failed to take.
open_interrupted_unlocks(t) ==
    /\ pc[t] = "blocked"
    /\ custom_dev' = [custom_dev EXCEPT !.lock = mutex_unlock(@)]
    /\ pc' = [pc EXCEPT ![t] = "idle"]
    /\ last' = Event("open_intr", t, TRUE, -1)
    /\ UNCHANGED <<mpc, err, sess, log>>

\* A signal arrives while sleeping: mutex_lock_interruptible returns nonzero.
open_interrupted(t) ==
    /\ pc[t] = "blocked"
    /\ pc' = [pc EXCEPT ![t] = "idle"]
    /\ last' = Event("open_intr", t, TRUE, -1)
    /\ UNCHANGED <<custom_dev, mpc, err, sess, log>>

----------------------------------------------------------------------------
(* release *)

\* Variant: releasing an unlocked device is reported as an error.
release_strict(t, mj, mn, i_cdev) ==
    /\ Reachable
    /\ pc[t] = "idle"
    /\ IF no_such_device(mj, mn)
       THEN /\ last' = Event("release_nodev", t, TRUE, -1)
            /\ UNCHANGED <<custom_dev, pc, sess>>
       ELSE IF wrong_cdev(i_cdev)
       THEN /\ last' = Event("release_badcdev", t, TRUE, -1)
            /\ UNCHANGED <<custom_dev, pc, sess>>
       ELSE IF mutex_is_locked(custom_dev.lock)
       THEN /\ pc' = [pc EXCEPT ![t] = "release_unlock"]
            /\ last' = Event("release_test", t, FALSE, 0)
            /\ UNCHANGED <<custom_dev, sess>>
       ELSE /\ last' = Event("release_noop", t, TRUE, -1)
            /\ UNCHANGED <<custom_dev, pc, sess>>
    /\ UNCHANGED <<mpc, err, log>>

\* Entry of release(): the two identity tests, then the mutex_is_locked test.
\* The unlock that follows a positive test is a separate step (release_unlock):
\* nothing orders the test and the unlock against other callers.
release(t, mj, mn, i_cdev) ==
    /\ Reachable
    /\ pc[t] = "idle"
    /\ IF no_such_device(mj, mn)
       THEN /\ last' = Event("release_nodev", t, TRUE, -1)
            /\ UNCHANGED <<custom_dev, pc, sess>>
       ELSE IF wrong_cdev(i_cdev)
       THEN /\ last' = Event("release_badcdev", t, TRUE, -1)
            /\ UNCHANGED <<custom_dev, pc, sess>>
       ELSE IF mutex_is_locked(custom_dev.lock)
       THEN /\ pc' = [pc EXCEPT ![t] = "release_unlock"]
            /\ last' = Event("release_test", t, FALSE, 0)
            /\ UNCHANGED <<custom_dev, sess>>
       ELSE /\ sess' = [sess EXCEPT ![t] = FALSE]
            /\ last' = Event("release_noop", t, TRUE, 0)
            /\ UNCHANGED <<custom_dev, pc>>
    /\ UNCHANGED <<mpc, err, log>>

\* Variant: unlocking a mutex the caller does not own is reported as an error.
release_unlock_owner_only(t) ==
    /\ pc[t] = "release_unlock"
    /\ custom_dev' = [custom_dev EXCEPT !.lock = mutex_unlock(@)]
    /\ pc' = [pc EXCEPT ![t] = "idle"]
    /\ sess' = [sess EXCEPT ![t] = FALSE]
    /\ last' = Event("release_unlock", t, TRUE, IF custom_dev.lock.owner = t THEN 0 ELSE -1)
    /\ UNCHANGED <<mpc, err, log>>

\* Variant: release() returns 0 without unlocking.
release_forgets_unlock(t) ==
    /\ pc[t] = "release_unlock"
    /\ pc' = [pc EXCEPT ![t] = "idle"]
    /\ sess' = [sess EXCEPT ![t] = FALSE]
    /\ last' = Event("release_unlock", t, TRUE, 0)
    /\ UNCHANGED <<custom_dev, mpc, err, log>>

\* mutex_unlock(&custom_dev.lock); return 0;
release_unlock(t) ==
    /\ pc[t] = "release_unlock"
    /\ custom_dev' = [custom_dev EXCEPT !.lock = mutex_unlock(@)]
    /\ pc' = [pc EXCEPT ![t] = "idle"]
    /\ sess' = [sess EXCEPT ![t] = FALSE]
    /\ last' = Event("release_unlock", t, TRUE, 0)
    /\ UNCHANGED <<mpc, err, log>>

----------------------------------------------------------------------------
(* ioctl *)

\* Variant: the command is refused unless the caller holds the lock.
ioctl_gated(t, cmd, arg) ==
    /\ Reachable
    /\ pc[t] = "idle"
    /\ last' = Event("ioctl", t, TRUE, IF custom_dev.lock.owner = t THEN 0 ELSE -1)
    /\ UNCHANGED <<custom_dev, mpc, err, pc, sess, log>>

ioctl(t, cmd, arg) ==
    /\ Reachable
    /\ pc[t] = "idle"
    /\ last' = Event("ioctl", t, TRUE, 0)
    /\ UNCHANGED <<custom_dev, mpc, err, pc, sess, log>>

----------------------------------------------------------------------------
(* cleanup *)

\* Variant: the case labels are off by one, so cleanup(0) starts at case 1.
cleanup_switch_off_by_one(e) ==
    CASE e = 0 -> "case1"
      [] e = 1 -> "case2"
      [] e = 2 -> "case3"
      [] e = 3 -> "case4"
      [] OTHER -> "cleanup_end"

\* switch (err): the case label control jumps to.
cleanup_switch(e) ==
    CASE e = 0 -> "case0"
      [] e = 1 -> "case1"
      [] e = 2 -> "case2"
      [] e = 3 -> "case3"
      [] e = 4 -> "case4"
      [] OTHER -> "cleanup_end"

\* Variant: cleanup waits for the holder to release instead of unlocking itself.
cleanup_case0_waits ==
    /\ mpc = "case0"
    /\ ~mutex_is_locked(custom_dev.lock)
    /\ mpc' = "case0_destroy"
    /\ last' = Event("cleanup_test", 0, FALSE, 0)
    /\ UNCHANGED <<custom_dev, err, pc, sess, log>>

\* case 0: if (mutex_is_locked(&custom_dev.lock))
cleanup_case0 ==
    /\ mpc = "case0"
    /\ mpc' = IF mutex_is_locked(custom_dev.lock) THEN "case0_unlock" ELSE "case0_destroy"
    /\ last' = Event("cleanup_test", 0, FALSE, 0)
    /\ UNCHANGED <<custom_dev, err, pc, sess, log>>

\* mutex_unlock(&custom_dev.lock);
cleanup_case0_unlock ==
    /\ mpc = "case0_unlock"
    /\ custom_dev' = [custom_dev EXCEPT !.lock = mutex_unlock(@)]
    /\ mpc' = "case0_destroy"
    /\ last' = Event("cleanup_unlock", 0, FALSE, 0)
    /\ UNCHANGED <<err, pc, sess, log>>

\* mutex_destroy(&custom_dev.lock); falls through to case 1.
cleanup_case0_destroy ==
    /\ mpc = "case0_destroy"
    /\ custom_dev' = [custom_dev EXCEPT !.lock = mutex_destroy(@)]
    /\ log' = Append(log, <<"release", "lock">>)
    /\ mpc' = "case1"
    /\ last' = Event("mutex_destroy", 0, FALSE, 0)
    /\ UNCHANGED <<err, pc, sess>>

\* case 1: if (custom_dev.device_ptr != NULL) device_destroy(...); falls through.
cleanup_case1 ==
    /\ mpc = "case1"
    /\ log' = IF custom_dev.device_ptr # "NULL"
              THEN Append(log, <<"release", "device">>) ELSE log
    /\ mpc' = "case2"
    /\ last' = Event("cleanup_case1", 0, FALSE, 0)
    /\ UNCHANGED <<custom_dev, err, pc, sess>>

\* case 2: cdev_del(&custom_dev.cdev); falls through.
cleanup_case2 ==
    /\ mpc = "case2"
    /\ custom_dev' = [custom_dev EXCEPT !.cdev = "deleted"]
    /\ log' = Append(log, <<"release", "cdev">>)
    /\ mpc' = "case3"
    /\ last' = Event("cleanup_case2", 0, FALSE, 0)
    /\ UNCHANGED <<err, pc, sess>>

\* Variant: class_destroy is called without the NULL test.
cleanup_case3_unconditional ==
    /\ mpc = "case3"
    /\ log' = Append(log, <<"release", "class">>)
    /\ mpc' = "case4"
    /\ last' = Event("cleanup_case3", 0, FALSE, 0)
    /\ UNCHANGED <<custom_dev, err, pc, sess>>

\* case 3: if (custom_dev.class_ptr != NULL) class_destroy(...); falls through.
cleanup_case3 ==
    /\ mpc = "case3"
    /\ log' = IF custom_dev.class_ptr # "NULL"
              THEN Append(log, <<"release", "class">>) ELSE log
    /\ mpc' = "case4"
    /\ last' = Event("cleanup_case3", 0, FALSE, 0)
    /\ UNCHANGED <<custom_dev, err, pc, sess>>

\* case 4: if (custom_dev.dev != 0) unregister_chrdev_region(...); default: break.
cleanup_case4 ==
    /\ mpc = "case4"
    /\ log' = IF custom_dev.dev # 0
              THEN Append(log, <<"release", "region">>) ELSE log
    /\ mpc' = "cleanup_end"
    /\ last' = Event("cleanup_case4", 0, FALSE, 0)
    /\ UNCHANGED <<custom_dev, err, pc, sess>>

\* cleanup returns: to custom_init, which returns err, or to custom_exit.
cleanup_return ==
    /\ mpc = "cleanup_end"
    /\ mpc' = IF err # 0 THEN "init_failed" ELSE "exited"
    /\ last' = IF err # 0 THEN Event("custom_init", 0, TRUE, err)
                          ELSE Event("custom_exit", 0, TRUE, 0)
    /\ UNCHANGED <<custom_dev, err, pc, sess, log>>

cleanup ==
    \/ cleanup_case0
    \/ cleanup_case0_unlock
    \/ cleanup_case0_destroy
    \/ cleanup_case1
    \/ cleanup_case2
    \/ cleanup_case3
    \/ cleanup_case4
    \/ cleanup_return

----------------------------------------------------------------------------
(* custom_init *)

\* A failed setup step: err = n; break; then if (err != 0) cleanup(err).
init_fail(n, what) ==
    /\ err' = n
    /\ mpc' = cleanup_switch(n)
    /\ last' = Event(what, 0, FALSE, 0)

init_alloc_chrdev_region ==
    /\ mpc = "alloc_chrdev_region"
    /\ \/ /\ \E ma \in AllocMajors :
                custom_dev' = [custom_dev EXCEPT !.dev = MKDEV(ma, 0),
                                                 !.major = MAJOR(MKDEV(ma, 0))]
          /\ log' = Append(log, <<"setup", "region">>)
          /\ mpc' = "class_create"
          /\ last' = Event("alloc_chrdev_region", 0, FALSE, 0)
          /\ UNCHANGED err
       \/ /\ init_fail(4, "alloc_chrdev_region_failed")
          /\ UNCHANGED <<custom_dev, log>>
    /\ UNCHANGED <<pc, sess>>

init_class_create ==
    /\ mpc = "class_create"
    /\ \/ /\ custom_dev' = [custom_dev EXCEPT !.class_ptr = "dummy_class"]
          /\ log' = Append(log, <<"setup", "class">>)
          /\ mpc' = "mutex_init"
          /\ last' = Event("class_create", 0, FALSE, 0)
          /\ UNCHANGED err
       \/ /\ custom_dev' = [custom_dev EXCEPT !.class_ptr = "NULL"]
          /\ init_fail(3, "class_create_failed")
          /\ UNCHANGED log
    /\ UNCHANGED <<pc, sess>>

\* cdev_init(&custom_dev.cdev, &fops); mutex_init(&custom_dev.lock);
init_mutex_init ==
    /\ mpc = "mutex_init"
    /\ custom_dev' = [custom_dev EXCEPT !.cdev = "inited", !.lock = mutex_init(@)]
    /\ log' = Append(log, <<"setup", "lock">>)
    /\ mpc' = "cdev_add"
    /\ last' = Event("mutex_init", 0, FALSE, 0)
    /\ UNCHANGED <<err, pc, sess>>

init_cdev_add ==
    /\ mpc = "cdev_add"
    /\ \/ /\ custom_dev' = [custom_dev EXCEPT !.cdev = "added"]
          /\ log' = Append(log, <<"setup", "cdev">>)
          /\ mpc' = "device_create"
          /\ last' = Event("cdev_add", 0, FALSE, 0)
          /\ UNCHANGED err
       \/ /\ init_fail(2, "cdev_add_failed")
          /\ UNCHANGED <<custom_dev, log>>
    /\ UNCHANGED <<pc, sess>>

init_device_create ==
    /\ mpc = "device_create"
    /\ \/ /\ custom_dev' = [custom_dev EXCEPT !.device_ptr = "customdevice"]
          /\ log' = Append(log, <<"setup", "device">>)
          /\ mpc' = "live"
          /\ last' = Event("custom_init", 0, TRUE, 0)
          /\ UNCHANGED err
       \/ /\ custom_dev' = [custom_dev EXCEPT !.device_ptr = "NULL"]
          /\ init_fail(1, "device_create_failed")
          /\ UNCHANGED log
    /\ UNCHANGED <<pc, sess>>

custom_init ==
    \/ init_alloc_chrdev_region
    \/ init_class_create
    \/ init_mutex_init
    \/ init_cdev_add
    \/ init_device_create

----------------------------------------------------------------------------
(* custom_exit *)

\* The module is unloaded after custom_init returned 0: cleanup(0).
custom_exit ==
    /\ mpc = "live"
    /\ mpc' = cleanup_switch(0)
    /\ last' = Event("custom_exit_call", 0, FALSE, 0)
    /\ UNCHANGED <<custom_dev, err, pc, sess, log>>

----------------------------------------------------------------------------
IoctlCmds == {0, 1}
IoctlArgs == {0, 1}

Next ==
    \/ \E t \in Threads, mj \in InodeMajors, mn \in InodeMinors, c \in InodeCdevs :
           open(t, mj, mn, c)
    \/ \E t \in Threads : open_wakeup(t)
    \/ \E t \in Threads : open_interrupted(t)
    \/ \E t \in Threads, mj \in InodeMajors, mn \in InodeMinors, c \in InodeCdevs :
           release(t, mj, mn, c)
    \/ \E t \in Threads : release_unlock(t)
    \/ \E t \in Threads, cmd \in IoctlCmds, arg \in IoctlArgs : ioctl(t, cmd, arg)
    \/ custom_init
    \/ cleanup
    \/ custom_exit

Spec == Init /\ [][Next]_vars

\* mutex_unlock wakes a sleeper and the scheduler runs it: while the lock stays
\* free and someone sleeps on it, some sleeper gets to retry.  Callers are under
\* no obligation to call open, release or ioctl, nor the module to be unloaded.
FairSpec == Spec /\ WF_vars(\E t \in Threads : open_wakeup(t))

\* cleanup is straight-line code that calls nothing that waits for a caller:
\* once entered, the module thread keeps running it.
FairExitSpec == Spec /\ WF_vars(cleanup)

----------------------------------------------------------------------------
(* Properties *)

Sessions == {t \in Threads : sess[t]}
Blocked  == {t \in Threads : pc[t] = "blocked"}
Locked   == mutex_is_locked(custom_dev.lock)

\* The identity a caller presents differs from the gate's: another major
\* number, or an inode bound to another cdev.
IdentityMismatch(mj, i_cdev) == mj # custom_dev.major \/ i_cdev # "custom_dev.cdev"

\* The last step returned ret to caller t.
Returned(ret) == last.returned /\ last.ret = ret

\* C1: on a registered gate at most one session is outstanding at any
\* instant, a session lasting from the success of a caller's open until that
\* caller's matching release, whoever else calls release meanwhile.
C1_AtMostOneSession == mpc = "live" => Cardinality(Sessions) <= 1

\* The step is one of caller t: every step of a file operation records its caller.
StepOf(t) == last'.t = t

\* C2: an open or release presenting a mismatching identity returns the
\* failure -1 and leaves the whole gate (lock, identity, registration, every
\* caller's position and session) as it was, with the lock held or free.
\* Stated by contraposition: a step of caller t that is anything but a return
\* of -1 that changes nothing is no open or release with a mismatching identity.
C2_MismatchFailsNoChange ==
    [][\A t \in Threads :
         (/\ StepOf(t)
          /\ ~(/\ last'.returned /\ last'.ret = -1
               /\ UNCHANGED <<custom_dev, mpc, err, pc, sess, log>>))
            => ~\E mj \in InodeMajors, mn \in InodeMinors, c \in InodeCdevs :
                  /\ IdentityMismatch(mj, c)
                  /\ open(t, mj, mn, c) \/ release(t, mj, mn, c)]_vars

C2_Witness ==
    /\ last.op \in {"open_nodev", "open_badcdev", "release_nodev", "release_badcdev"}
    /\ Returned(-1)
    /\ Locked
    /\ last.t # custom_dev.lock.owner

\* C3: an open whose wait for the lock is interrupted returns the failure -1
\* without the lock; neither going to sleep nor being interrupted changes the
\* lock, its holder, any session or any other caller's position.
C3_InterruptLeavesLock ==
    [][\A t \in Threads :
         /\ open_interrupted(t)
               => /\ last'.t = t /\ last'.returned /\ last'.ret = -1
                  /\ custom_dev'.lock.owner # t
                  /\ pc'[t] = "idle"
                  /\ \A u \in Threads \ {t} : pc'[u] = pc[u]
                  /\ UNCHANGED <<custom_dev, mpc, sess, log>>
         /\ (pc[t] = "idle" /\ pc'[t] = "blocked")
               => UNCHANGED <<custom_dev, mpc, sess, log>>]_vars

C3_Witness ==
    /\ last.op = "open_intr"
    /\ Returned(-1)
    /\ Locked
    /\ sess[custom_dev.lock.owner]
    /\ Blocked # {}

\* C4: a release with matching identity that finds the lock free returns 0
\* and changes nothing: the lock is still free afterwards, so the next open
\* takes it, and a second release in a row has the effect of none.
\* Stated by contraposition, like C2.
C4_ReleaseIdempotent ==
    [][\A t \in Threads :
         (/\ StepOf(t)
          /\ ~Locked
          /\ ~(/\ last'.returned /\ last'.ret = 0
               /\ ~mutex_is_locked(custom_dev'.lock)
               /\ UNCHANGED <<custom_dev, mpc, err, pc, log>>))
            => ~\E mj \in InodeMajors, mn \in InodeMinors, c \in InodeCdevs :
                  ~IdentityMismatch(mj, c) /\ release(t, mj, mn, c)]_vars

\* A matching release found the lock of the registered gate free and returned 0.
C4_Witness ==
    /\ last.op = "release_noop"
    /\ Returned(0)
    /\ ~Locked
    /\ mpc = "live"
    /\ Len(log) > 0

\* C5: ioctl returns 0 for every command and argument, from any caller, with
\* the lock held or free, and changes no field of the gate.
\* Stated by contraposition, like C2.
C5_IoctlNoEffect ==
    [][\A t \in Threads :
         (/\ StepOf(t)
          /\ ~(/\ last'.returned /\ last'.ret = 0
               /\ UNCHANGED <<custom_dev, mpc, err, pc, sess, log>>))
            => ~\E cmd \in IoctlCmds, arg \in IoctlArgs : ioctl(t, cmd, arg)]_vars

\* A caller that does not hold the lock issued a command while another holds it.
C5_Witness ==
    /\ last.op = "ioctl"
    /\ Returned(0)
    /\ Locked
    /\ last.t # custom_dev.lock.owner
    /\ ~sess[last.t]

\* A release has just unlocked the mutex of a registered gate while callers sleep on it.
ReleasedWithWaiters == last.op = "release_unlock" /\ mpc = "live" /\ Blocked # {}

\* C6 as stated: whenever a release frees the lock while opens are blocked on
\* it, one of the opens blocked at that moment eventually succeeds (unless one
\* of them is interrupted or the module is unloaded).
C6_SomeWaiterSucceeds ==
    \A W \in SUBSET Threads :
        [](ReleasedWithWaiters /\ Blocked = W
             => <>(\/ last.op = "open_ok" /\ last.t \in W
                   \/ last.op = "open_intr" /\ last.t \in W
                   \/ mpc # "live"))

\* C6 as amended: whenever a release frees the lock while opens are blocked on
\* it, some open eventually takes the lock, a blocked one or one that arrives
\* and finds the lock free first (unless every waiter is interrupted or the
\* module is unloaded): no release leaves waiters asleep on a free lock.
C6_LockTakenAgain ==
    [](ReleasedWithWaiters
         => <>(\/ last.op = "open_ok"
               \/ Blocked = {}
               \/ mpc # "live"))

C6_Witness == ReleasedWithWaiters /\ ~Locked /\ Cardinality(Blocked) >= 2

\* C7 as stated: every release call returns 0, in every lock state.
C7_ReleaseNeverFails ==
    [][\A t \in Threads, mj \in InodeMajors, mn \in InodeMinors, c \in InodeCdevs :
         ((release(t, mj, mn, c) \/ release_unlock(t)) /\ last'.returned)
            => last'.ret = 0]_vars

\* C7 as amended: every release call that presents the gate's identity
\* returns 0, in every lock state and whoever holds the lock: no step that
\* returns a nonzero value to caller t is a matching release or its unlock.
C7_MatchingReleaseOk ==
    [][\A t \in Threads :
         (StepOf(t) /\ last'.returned /\ last'.ret # 0)
            => /\ ~release_unlock(t)
               /\ ~\E mj \in InodeMajors, mn \in InodeMinors, c \in InodeCdevs :
                     ~IdentityMismatch(mj, c) /\ release(t, mj, mn, c)]_vars

\* A caller without a session released the lock another caller's session holds.
C7_Witness ==
    /\ last.op = "release_unlock"
    /\ Returned(0)
    /\ Sessions # {}
    /\ last.t \notin Sessions

\* The resources custom_init set up and those released, each in call order.
Calls(kind) ==
    LET sel == SelectSeq(log, LAMBDA e : e[1] = kind)
    IN  [i \in 1..Len(sel) |-> sel[i][2]]

Reverse(q) == [i \in 1..Len(q) |-> q[Len(q) + 1 - i]]

Count(kind, r) == Len(SelectSeq(log, LAMBDA e : e = <<kind, r>>))

Resources == {"region", "class", "lock", "cdev", "device"}

\* C8: when custom_init returns a failure, exactly the resources set up so
\* far (the initialized lock included) have been released, in the reverse of
\* the order in which they were set up, and nothing else has been.
C8_FailedInitRolledBack ==
    mpc = "init_failed" => Calls("release") = Reverse(Calls("setup"))

\* C9: once custom_exit has returned after a successful custom_init, each of
\* the five resources has been set up once and released once, whatever the
\* callers did in between.
C9_RoundTripReleasedOnce ==
    mpc = "exited" =>
        \A r \in Resources : Count("setup", r) = 1 /\ Count("release", r) = 1

\* The module was unloaded while a session was outstanding and a caller slept in open.
C9_Witness == mpc = "exited" /\ Sessions # {} /\ Blocked # {}

\* C10: the lock is free at the moment cleanup destroys it.
C10_DestroyedWhileFree ==
    [][(custom_dev.lock.magic = "valid" /\ custom_dev'.lock.magic = "destroyed")
          => ~mutex_is_locked(custom_dev.lock)]_vars

\* C11: custom_exit always runs to completion: entered with the lock held, it
\* unlocks the mutex itself and finishes every step, whether or not the holder
\* ever calls release.
C11_TeardownTerminates ==
    /\ [](mpc = "case0" => <>(mpc = "exited"))
    /\ [][cleanup_case0_unlock => ~mutex_is_locked(custom_dev'.lock)]_vars

\* cleanup has just unlocked the mutex under a holder whose session is still outstanding.
C11_Witness ==
    /\ last.op = "cleanup_unlock"
    /\ mpc = "case0_destroy"
    /\ ~Locked
    /\ Sessions # {}

\* C12: no cleanup step destroys a resource that is absent: every release of
\* a resource is matched by an earlier successful setup of it not yet released.
C12_NoReleaseWhileAbsent ==
    \A r \in Resources : Count("release", r) <= Count("setup", r)

\* C14: when class_create fails (err = 3), the chrdev region is released,
\* once, and nothing is done to the class, the cdev, the device or the lock.
C14_SecondStepRollback ==
    (mpc = "init_failed" /\ err = 3) =>
        /\ log = << <<"setup", "region">>, <<"release", "region">> >>
        /\ custom_dev.lock.magic = "uninit"
        /\ custom_dev.cdev = "zero"
        /\ custom_dev.class_ptr = "NULL"
        /\ custom_dev.device_ptr = "NULL"

C14_Witness == mpc = "init_failed" /\ err = 3 /\ last = Event("custom_init", 0, TRUE, 3)

----------------------------------------------------------------------------
(* The handoff scenario *)

\* Only the events of the scenario happen: callers present the gate's
\* identity to a loaded module, an open arrives when the lock is held or
\* nobody sleeps on it, only a session's owner calls release, and the module
\* is unloaded once every session is closed and no call is in progress.
HandoffOpen(t, mn) ==
    /\ mpc = "live"
    /\ Locked \/ Blocked = {}
    /\ open(t, custom_dev.major, mn, "custom_dev.cdev")

HandoffRelease(t, mn) ==
    /\ mpc = "live"
    /\ sess[t]
    /\ release(t, custom_dev.major, mn, "custom_dev.cdev")

HandoffExit ==
    /\ Sessions = {}
    /\ \A t \in Threads : pc[t] = "idle"
    /\ custom_exit

\* Commands may be issued at any time by any caller.
HandoffIoctl(t, cmd, arg) ==
    /\ mpc = "live"
    /\ ioctl(t, cmd, arg)

\* cleanup as it runs in the scenario: the lock is free when custom_exit is
\* called, so the unlock of case 0 is never reached.
HandoffCleanup ==
    \/ cleanup_case0
    \/ cleanup_case0_destroy
    \/ cleanup_case1
    \/ cleanup_case2
    \/ cleanup_case3
    \/ cleanup_case4
    \/ cleanup_return

HandoffNext ==
    \/ custom_init
    \/ \E t \in Threads, mn \in InodeMinors : HandoffOpen(t, mn)
    \/ \E t \in Threads : open_wakeup(t)
    \/ \E t \in Threads, mn \in InodeMinors : HandoffRelease(t, mn)
    \/ \E t \in Threads : release_unlock(t)
    \/ \E t \in Threads, cmd \in IoctlCmds, arg \in IoctlArgs : HandoffIoctl(t, cmd, arg)
    \/ HandoffExit
    \/ HandoffCleanup

HandoffSpec ==
    /\ Init /\ [][HandoffNext]_vars
    /\ WF_vars(\E t \in Threads : open_wakeup(t))
    /\ WF_vars(HandoffCleanup)

\* C13: in the handoff scenario an open that finds the lock held stays
\* blocked for as long as it is held; once the holder's release has unlocked
\* it, one of the blocked opens completes with the lock; a release leaves the
\* lock free; and custom_exit then runs to completion with the lock free.
C13_Handoff ==
    /\ [][\A t \in Threads : (pc[t] = "blocked" /\ Locked) => pc'[t] = "blocked"]_vars
    /\ \A W \in SUBSET Threads :
          [](last.op = "release_unlock" /\ Blocked = W /\ W # {}
               => <>(/\ last = Event("open_ok", custom_dev.lock.owner, TRUE, 0)
                     /\ last.t \in W
                     /\ pc[last.t] = "idle"))
    /\ [][\A t \in Threads : release_unlock(t) => ~mutex_is_locked(custom_dev'.lock)]_vars
    /\ [](mpc = "case0" => <>(mpc = "exited"))
    /\ [](mpc \in {"case0", "case0_destroy", "case1", "case2", "case3", "case4",
                   "cleanup_end", "exited"} /\ err = 0
             => ~Locked /\ Sessions = {})

\* A blocked open has completed with the lock after the holder's release,
\* while another caller still sleeps.
C13_Witness ==
    /\ last.op = "open_ok"
    /\ custom_dev.lock.owner = last.t
    /\ Sessions = {last.t}
    /\ Blocked # {}

\* The gate is not registered: callers cannot reach it and its lock is gone.
Uninitialized == ~Reachable /\ custom_dev.lock.magic # "valid"

\* C15: the lock becomes held only by an open that succeeds, and only from
\* free; it becomes free only by the unlock of a release that found it held
\* or by cleanup's unlock; ioctl and a release that finds it free leave it as
\* it is; and once custom_exit has returned the gate is uninitialized.
C15_StateMachine ==
    /\ [][/\ (~Locked /\ mutex_is_locked(custom_dev'.lock))
               => \E t \in Threads :
                     /\ last' = Event("open_ok", t, TRUE, 0)
                     /\ custom_dev'.lock.owner = t
                     /\ open_wakeup(t)
                           \/ \E mj \in InodeMajors, mn \in InodeMinors, c \in InodeCdevs :
                                 open(t, mj, mn, c)
          /\ (Locked /\ ~mutex_is_locked(custom_dev'.lock))
               => (cleanup_case0_unlock \/ \E t \in Threads : release_unlock(t))
          /\ \A t \in Threads : (~sess[t] /\ sess'[t]) => ~Locked
          /\ \A t \in Threads : (pc[t] = "blocked" /\ last' = Event("open_ok", t, TRUE, 0))
               => ~Locked
          /\ custom_dev'.lock # custom_dev.lock
               => /\ ~\E t \in Threads, cmd \in IoctlCmds, arg \in IoctlArgs :
                        ioctl(t, cmd, arg)
                  /\ ~\E t \in Threads, mj \in InodeMajors, mn \in InodeMinors,
                           c \in InodeCdevs :
                        release(t, mj, mn, c) /\ ~Locked
         ]_vars
    /\ [](mpc = "exited" => Uninitialized)

\* A release has taken the registered gate from Locked back to Idle.
C15_Witness ==
    /\ last.op = "release_unlock"
    /\ mpc = "live"
    /\ ~Locked
    /\ Sessions = {}
    /\ Blocked = {}

\* C16: custom_exit releases the resources in exactly the reverse of the
\* order in which custom_init set them up, the lock included.
C16_ExitReversesInit ==
    mpc = "exited" => Calls("release") = Reverse(Calls("setup"))

\* C17: an open that fails on an identity mismatch and an open that fails on
\* an interrupted wait return different values.
C17_FailureCausesDistinct ==
    [][(/\ last.op \in {"open_nodev", "open_badcdev"}
        /\ last'.op = "open_intr")
          => last'.ret # last.ret]_vars

\* C18: neither release nor cleanup ever calls mutex_unlock on an unlocked
\* mutex: the mutex_is_locked test and the unlock behave as one atomic step.
C18_UnlockOnlyWhenLocked ==
    [][(cleanup_case0_unlock \/ \E t \in Threads : release_unlock(t)) => Locked]_vars

\* Caller t's step reads or writes the mutex: an open or release that passed
\* the identity tests, a sleeper taking the lock, or release's unlock.
TouchesLock(t) ==
    \/ open_wakeup(t)
    \/ release_unlock(t)
    \/ \E mj \in InodeMajors, mn \in InodeMinors, c \in InodeCdevs :
          /\ ~IdentityMismatch(mj, c)
          /\ open(t, mj, mn, c) \/ release(t, mj, mn, c)

\* C19: no open or release locks, tests or unlocks the mutex after cleanup
\* has destroyed it.
C19_NoUseAfterDestroy ==
    [][\A t \in Threads : TouchesLock(t) => custom_dev.lock.magic # "destroyed"]_vars

----------------------------------------------------------------------------
(* Well-behaved use *)

\* release is called only by a caller with an outstanding session (so once
\* per successful open, by the caller whose open last succeeded) and with
\* the gate's identity; the module is never unloaded.  cleanup then runs only
\* as the rollback of a failed custom_init, entered at case 1 or later.
WellBehavedRelease(t, mn) ==
    /\ sess[t]
    /\ release(t, custom_dev.major, mn, "custom_dev.cdev")

WellBehavedCleanup ==
    \/ cleanup_case1
    \/ cleanup_case2
    \/ cleanup_case3
    \/ cleanup_case4
    \/ cleanup_return

WellBehavedNext ==
    \/ \E t \in Threads, mj \in InodeMajors, mn \in InodeMinors, c \in InodeCdevs :
           open(t, mj, mn, c)
    \/ \E t \in Threads : open_wakeup(t)
    \/ \E t \in Threads : open_interrupted(t)
    \/ \E t \in Threads, mn \in InodeMinors : WellBehavedRelease(t, mn)
    \/ \E t \in Threads : release_unlock(t)
    \/ \E t \in Threads, cmd \in IoctlCmds, arg \in IoctlArgs : ioctl(t, cmd, arg)
    \/ custom_init
    \/ WellBehavedCleanup

WellBehavedSpec == Init /\ [][WellBehavedNext]_vars

\* C20: under well-behaved use the lock is held exactly when one session is
\* active, that of the lock's owner, and free exactly when none is.
C20_LockedIffOneSession ==
    /\ Locked <=> Cardinality(Sessions) = 1
    /\ ~Locked <=> Sessions = {}
    /\ Locked => Sessions = {custom_dev.lock.owner}

\* The owner's release has just freed the lock: no session is left while a caller sleeps.
C20_Witness ==
    /\ last.op = "release_unlock"
    /\ ~Locked
    /\ Sessions = {}
    /\ Blocked # {}

====
